---- MODULE Spec2Model ----
(***************************************************************************)
(* Model of SamsungTVClient (src/src/samsungTVClient.js): the binary codec *)
(* (createMessage, parseResponse) as operators computed the way the code   *)
(* computes them, and the client (connect, authenticate, send...) as a     *)
(* state machine over the socket, its listeners and the promises the       *)
(* calls return.                                                           *)
(***************************************************************************)
EXTENDS Integers, Sequences, FiniteSets, TLC

\* ------------------------------------------------------------------ bounds

\* Longest payload handed to createMessage in CodecSpec.
MaxPayloadLen == 3
\* Longest raw buffer handed to parseResponse in CodecSpec.
MaxResponseLen == 6

\* Byte values payloads are drawn from: ASCII, the ends of the ASCII range,
\* UTF-8 continuation bytes (128, 169, 191), UTF-8 lead bytes (194, 195, 224)
\* and a byte that never occurs in UTF-8 (255).
PayloadBytes == {0, 65, 127, 128, 169, 191, 194, 195, 224, 255}
\* Byte values raw response buffers are drawn from (small, so that declared
\* lengths fall inside and outside short buffers).
ResponseBytes == {0, 1, 2, 3}

RECURSIVE SeqsUpTo(_, _)
SeqsUpTo(S, n) ==
  IF n = 0 THEN {<<>>}
  ELSE LET shorter == SeqsUpTo(S, n - 1)
       IN shorter \cup {Append(s, x) : s \in {t \in shorter : Len(t) = n - 1}, x \in S}

\* ------------------------------------------------------------------- codec

\* 'iphone.iapp.samsung' as bytes.
AppName ==
  <<105, 112, 104, 111, 110, 101, 46, 105, 97, 112, 112, 46,
    115, 97, 109, 115, 117, 110, 103>>

\* Buffer.writeUInt16LE: low byte first.
UInt16LE(n) == <<n % 256, (n \div 256) % 256>>

\* Buffer.alloc(n): n zero bytes.
Zeros(n) == [i \in 1..n |-> 0]

\* U+FFFD, what Buffer.toString() puts in place of an invalid sequence.
ReplacementChar == 65533

\* Number of continuation bytes a UTF-8 lead byte announces (0: not a lead).
Utf8Need(c) ==
  IF c >= 194 /\ c <= 223 THEN 1
  ELSE IF c >= 224 /\ c <= 239 THEN 2
  ELSE IF c >= 240 /\ c <= 244 THEN 3
  ELSE 0

\* Range the j-th continuation byte after lead byte c must lie in.
Utf8Lower(c, j) ==
  IF j = 1 /\ c = 224 THEN 160 ELSE IF j = 1 /\ c = 240 THEN 144 ELSE 128

Utf8Upper(c, j) ==
  IF j = 1 /\ c = 237 THEN 159 ELSE IF j = 1 /\ c = 244 THEN 143 ELSE 191

\* The j-th byte after the lead byte at index i is a continuation byte the
\* lead byte allows.
Utf8Ok(b, i, j) ==
  i + j <= Len(b) /\ b[i + j] >= Utf8Lower(b[i], j) /\ b[i + j] <= Utf8Upper(b[i], j)

\* A character or an invalid subsequence starts at index p: every byte that
\* is no continuation byte starts one, and so does a continuation byte that
\* no lead byte before it claims.
Utf8Start(b, p) ==
  \/ b[p] < 128
  \/ b[p] > 191
  \/ ~\E j \in 1..3 :
        /\ p - j >= 1
        /\ Utf8Need(b[p - j]) >= j
        /\ \A m \in 1..j : Utf8Ok(b, p - j, m)

\* The code point decoded at index i, where a character or an invalid
\* subsequence starts: U+FFFD unless the sequence is whole.
Utf8Unit(b, i) ==
  LET c == b[i]
      n == Utf8Need(c)
      cp == IF n = 1 THEN (c - 192) * 64 + (b[i + 1] - 128)
            ELSE IF n = 2 THEN (c - 224) * 4096 + (b[i + 1] - 128) * 64 + (b[i + 2] - 128)
            ELSE (c - 240) * 262144 + (b[i + 1] - 128) * 4096
                 + (b[i + 2] - 128) * 64 + (b[i + 3] - 128)
  IN IF c < 128 THEN c
     ELSE IF n = 0 THEN ReplacementChar
     ELSE IF \A j \in 1..n : Utf8Ok(b, i, j) THEN cp
     ELSE ReplacementChar

\* Buffer.toString() (utf8): the code points of the bytes from index i on;
\* every maximal invalid subsequence becomes one U+FFFD.
Utf8Decode(b, i) ==
  LET starts == {p \in i..Len(b) : Utf8Start(b, p)}
      before(p) == Cardinality({q \in starts : q <= p})
  IN [k \in 1..Cardinality(starts) |->
        Utf8Unit(b, CHOOSE p \in starts : before(p) = k)]

\* UTF-8 bytes of one code point.
Utf8Encode(cp) ==
  IF cp < 128 THEN <<cp>>
  ELSE IF cp < 2048 THEN <<192 + (cp \div 64), 128 + (cp % 64)>>
  ELSE IF cp < 65536 THEN
    <<224 + (cp \div 4096), 128 + ((cp \div 64) % 64), 128 + (cp % 64)>>
  ELSE
    <<240 + (cp \div 262144), 128 + ((cp \div 4096) % 64),
      128 + ((cp \div 64) % 64), 128 + (cp % 64)>>

\* The UTF-8 bytes of a string (given as code points), as Buffer.from(string)
\* and Buffer.write(string) produce them: one half after the other.
RECURSIVE StringBytes(_)
StringBytes(str) ==
  IF str = <<>> THEN <<>>
  ELSE IF Len(str) = 1 THEN Utf8Encode(str[1])
  ELSE LET h == Len(str) \div 2
       IN StringBytes(SubSeq(str, 1, h)) \o StringBytes(SubSeq(str, h + 1, Len(str)))

\* Buffer.write(string, offset): the UTF-8 bytes of the leading characters
\* that fit whole in the room left; a character that does not fit ends it.
BufferWrite(str, room) ==
  LET fits(k) == Len(StringBytes(SubSeq(str, 1, k))) <= room
      count == CHOOSE k \in 0..Len(str) :
                 fits(k) /\ (k = Len(str) \/ ~fits(k + 1))
  IN StringBytes(SubSeq(str, 1, count))

\* createMessage(payload): 00, u16 length of the name, the name, u16 length
\* of the payload, then the payload converted to a string and written back
\* as UTF-8 into the payloadSize bytes left of the zero-filled buffer.
createMessage(payload) ==
  LET nameSize == Len(AppName)
      payloadSize == Len(payload)
      body == BufferWrite(Utf8Decode(payload, 1), payloadSize)
  IN <<0>> \o UInt16LE(nameSize) \o AppName \o UInt16LE(payloadSize)
       \o body \o Zeros(payloadSize - Len(body))

\* Outcome of a call that threw (readUInt16LE past the end: RangeError).
Thrown == [thrown |-> TRUE, payload |-> <<>>]

\* Buffer.slice(start, end) with 0-based offsets, clamped to the buffer.
BufferSlice(b, start, end) ==
  LET e == IF end > Len(b) THEN Len(b) ELSE end
  IN IF start >= e THEN <<>> ELSE [i \in 1..(e - start) |-> b[start + i]]

\* parseResponse(response): skip byte 0, read the name length at offset 1,
\* skip the name, read the payload length, slice that many bytes.
\* readUInt16LE(offset) throws unless offset + 2 <= length.
parseResponse(response) ==
  IF 1 + 2 > Len(response) THEN Thrown
  ELSE
    LET stringLen == response[2] + 256 * response[3]
        offset == 3 + stringLen
    IN IF offset + 2 > Len(response) THEN Thrown
       ELSE
         LET payloadSize == response[offset + 1] + 256 * response[offset + 2]
         IN [thrown |-> FALSE,
             payload |-> BufferSlice(response, offset + 2, payloadSize + offset + 2)]

\* The character (as its code) of a 6-bit value in the base64 alphabet
\* A-Z a-z 0-9 + /.
Base64Char(n) ==
  IF n < 26 THEN 65 + n
  ELSE IF n < 52 THEN 97 + (n - 26)
  ELSE IF n < 62 THEN 48 + (n - 52)
  ELSE IF n = 62 THEN 43
  ELSE 47

\* '=', the base64 padding character.
Base64Pad == 61

\* buffer.toString('base64'): four characters for every three bytes, the
\* last group padded with '='. (Longer buffers are cut at a multiple of
\* three bytes and the parts put together.)
RECURSIVE Base64(_)
Base64(b) ==
  IF b = <<>> THEN <<>>
  ELSE IF Len(b) > 3 THEN
    LET h == 3 * ((Len(b) \div 3 + 1) \div 2)
    IN Base64(SubSeq(b, 1, h)) \o Base64(SubSeq(b, h + 1, Len(b)))
  ELSE IF Len(b) = 1 THEN
    <<Base64Char(b[1] \div 4), Base64Char((b[1] % 4) * 16), Base64Pad, Base64Pad>>
  ELSE IF Len(b) = 2 THEN
    <<Base64Char(b[1] \div 4), Base64Char((b[1] % 4) * 16 + b[2] \div 16),
      Base64Char((b[2] % 16) * 4), Base64Pad>>
  ELSE
    <<Base64Char(b[1] \div 4), Base64Char((b[1] % 4) * 16 + b[2] \div 16),
      Base64Char((b[2] % 16) * 4 + b[3] \div 64), Base64Char(b[3] % 64)>>

\* toBase64(string): Buffer.from(string).toString('base64'), as a string.
toBase64(string) == Base64(StringBytes(string))

\* createKeyPayload(key): three zero bytes, the u16 length of the base64
\* form of the key, and the base64 form written as a string.
createKeyPayload(key) ==
  LET keyBase64 == toBase64(key)
      keySize == Len(keyBase64)
      body == BufferWrite(keyBase64, keySize)
  IN <<0, 0, 0>> \o UInt16LE(keySize) \o body \o Zeros(keySize - Len(body))

\* net.isIP(ip) on the address strings used here: 6 for '::1', 4 for
\* '1.2.3.4', 0 for the strings that are no IP literal.
isIP(ip) ==
  IF ip = <<58, 58, 49>> THEN 6
  ELSE IF ip = <<49, 46, 50, 46, 51, 46, 52>> THEN 4
  ELSE 0

\* A size field holding the length of the string instead of the length of
\* its base64 form.
FieldSizeOfString(string) == Len(string)

\* The size createAuthPayload writes before a field: the length of the
\* base64 form of the field.
FieldSize(string) == Len(toBase64(string))

\* One field of the auth payload: its u16 size and its base64 form.
AuthField(string) == UInt16LE(FieldSize(string)) \o toBase64(string)

\* createAuthPayload(ip, id, name) for a valid ip: 0x64, a zero byte, then
\* ip, id and name, each as its size and its base64 form. (The buffer has
\* exactly the room the three base64 strings need.)
createAuthPayload(ip, id, name) ==
  <<100, 0>> \o AuthField(ip) \o AuthField(id) \o AuthField(name)

\* ------------------------------------------------------------------ client

\* Bounds on the calls made in one run (connect, authenticate and key sends
\* together), and on the await frames one call counts.
MaxCalls == 3
MaxAwaits == 1
\* Longest delay, in ticks of the clock, given to the constructor or to a
\* key send.
MaxDelay == 2

VARIABLES
  delay,             \* this.delay: the default delay given to the constructor
  socket,            \* this.socket: "idle", "connecting", "open" or "closed"
  attempts,          \* the socket.connect(port, ip, ...) calls made: their ports
  connectCalls,      \* the promises connect() returned, in call order
  connectListeners,  \* connect calls whose resolve waits for 'connect'
  errorListeners,    \* connect calls whose reject listens on 'error'
  authCalls,         \* the promises authenticate() returned, in call order
  dataListeners,     \* authenticate calls whose listener is on 'data'
  keyCalls,          \* the sendMessageByPayload() calls: promise, delay, timer
  written,           \* the socket.write calls made, counted by kind of message
  crashed,           \* an exception left a listener uncaught
  ignored,           \* kind of the last payload a pending call's listener
                     \* took no branch on, since the last authenticate call
  codecPc,           \* codec run: where it stands
  codecIn,           \* codec run: the payload given to createMessage
  codecMsg,          \* codec run: the buffer given to parseResponse
  codecOut           \* codec run: what parseResponse returned

clientVars ==
  <<delay, socket, attempts, connectCalls, connectListeners, errorListeners, authCalls,
    dataListeners, keyCalls, written, crashed, ignored>>

codecVars == <<codecPc, codecIn, codecMsg, codecOut>>

vars == <<clientVars, codecVars>>

\* static get accessResponse
accessResponse ==
  [granted |-> <<100, 0, 1, 0>>,
   denied |-> <<100, 0, 0, 0>>,
   await |-> <<10, 0, 2, 0, 0, 0>>,
   timeout |-> <<101, 0>>]

\* A promise the last resolve or reject wins.
SettleAgain(promise, outcome) == outcome

\* resolve(outcome) or reject(outcome) of a promise: it settles once, and on
\* a settled promise does nothing.
Settle(promise, outcome) == IF promise = "pending" THEN outcome ELSE promise

\* constructor(delay): a fresh, unconnected socket, the default delay, and
\* no calls made.
constructor(d) ==
  /\ delay = d
  /\ socket = "idle"
  /\ attempts = <<>>
  /\ connectCalls = <<>>
  /\ connectListeners = {}
  /\ errorListeners = {}
  /\ authCalls = <<>>
  /\ dataListeners = <<>>
  /\ keyCalls = <<>>
  /\ written = [auth |-> 0, key |-> 0]
  /\ crashed = FALSE
  /\ ignored = "none"

\* new SamsungTVClient(): the delay defaults to 0.
ClientInit == constructor(0)

CodecIdle ==
  /\ codecPc = "idle"
  /\ codecIn = <<>>
  /\ codecMsg = <<>>
  /\ codecOut = Thrown

\* The calls whose listener a 'data' event runs: every listener authenticate
\* added on 'data'; none is ever removed.
Listening == {dataListeners[k] : k \in 1..Len(dataListeners)}

\* The calls made so far.
CallsMade == Len(connectCalls) + Len(authCalls) + Len(keyCalls)

\* The authenticate calls that are pending.
PendingAuth == {i \in 1..Len(authCalls) : authCalls[i].promise = "pending"}

\* Some authenticate call has resolved.
Authenticated == \E i \in 1..Len(authCalls) : authCalls[i].promise = "Success"

\* The port of the television.
TVPort == 55000

\* A connect that tries the port a second time.
AttemptTwice(a) == a \o <<TVPort, TVPort>>

\* socket.connect(55000, ip, resolve): one connection attempt.
Attempt(a) == Append(a, TVPort)

\* Whether the executor of connect goes on to the socket after the ip check:
\* reject() does not return from it.
ConnectGoesOn(validIP) == TRUE

\* connect(ip). The executor rejects on an invalid ip and then goes on: it
\* calls socket.connect(55000, ip, resolve) and adds reject on 'error'
\* whatever the ip. Called on a socket that is not connecting or open.
connect(validIP) ==
  /\ ~crashed
  /\ CallsMade < MaxCalls
  /\ socket \in {"idle", "closed"}
  /\ connectCalls' =
       Append(connectCalls, IF validIP THEN "pending" ELSE "Not a valid IP")
  /\ IF ConnectGoesOn(validIP)
       THEN /\ attempts' = Attempt(attempts)
            /\ socket' = "connecting"
            /\ connectListeners' = connectListeners \cup {Len(connectCalls) + 1}
            /\ errorListeners' = errorListeners \cup {Len(connectCalls) + 1}
       ELSE UNCHANGED <<attempts, socket, connectListeners, errorListeners>>
  /\ UNCHANGED <<authCalls, dataListeners, keyCalls, written, crashed>>
  /\ UNCHANGED <<delay, ignored, codecVars>>

\* An authenticate that writes only on an open socket.
AuthWriteWhenOpen(w) == IF socket = "open" THEN [w EXCEPT !.auth = @ + 1] ELSE w

\* An authenticate that writes only when no authenticate call is pending.
AuthWriteWhenNonePending(w) == IF PendingAuth = {} THEN [w EXCEPT !.auth = @ + 1] ELSE w

\* The write authenticate makes: the auth message handed to socket.write,
\* whatever the state of the socket and whatever calls are pending.
AuthWrite(w) == [w EXCEPT !.auth = @ + 1]

\* The listener authenticate adds on 'data', whatever listeners are there.
AuthListen(l) == Append(l, Len(authCalls) + 1)

\* An executor of authenticate that goes on to the socket whatever the
\* clientIP, as the one of connect does.
AuthGoesOnAlways(validIP) == TRUE

\* Whether the executor of authenticate goes on to the socket after the ip
\* check: reject() does not return from it, but createAuthPayload throws on
\* an invalid ip before socket.write is reached.
AuthGoesOn(validIP) == validIP

\* authenticate(clientIP, clientUID, clientName). On an invalid clientIP the
\* executor rejects, and createAuthPayload then throws before socket.write is
\* called, so nothing is written and no listener is added. Otherwise it
\* writes the auth message and adds a listener on 'data'. (Each call keeps
\* whether the socket was open when it was made, the await frames its
\* listener saw while it was pending.)
authenticate(validIP) ==
  /\ ~crashed
  /\ CallsMade < MaxCalls
  /\ authCalls' =
       Append(authCalls,
              [promise |-> IF validIP THEN "pending" ELSE "Not a valid IP",
               open |-> socket = "open",
               awaits |-> 0])
  /\ IF AuthGoesOn(validIP)
       THEN /\ written' = AuthWrite(written)
            /\ dataListeners' = AuthListen(dataListeners)
       ELSE UNCHANGED <<written, dataListeners>>
  /\ ignored' = "none"
  /\ UNCHANGED <<socket, attempts, connectCalls, connectListeners, errorListeners,
                 keyCalls, crashed>>
  /\ UNCHANGED <<delay, codecVars>>

\* A send that writes only once an authenticate call has resolved.
sendWhenAuthenticated(w) == IF Authenticated THEN [w EXCEPT !.key = @ + 1] ELSE w

\* A send that hands the buffer to the socket only when the socket is open.
sendWhenOpen(w) == IF socket = "open" THEN [w EXCEPT !.key = @ + 1] ELSE w

\* A send that hands the buffer to the socket twice.
sendTwice(w) == [w EXCEPT !.key = @ + 2]

\* send(buffer): socket.write(buffer), whatever the state of the session.
send(w) == [w EXCEPT !.key = @ + 1]

\* The delay argument left out (undefined).
Undefined == -1

\* The time setTimeout(resolve, delay || this.delay) is set to: the
\* parameter defaults to this.delay when left out, and a parameter of 0
\* gives way to this.delay too.
Timeout(given) ==
  LET d == IF given = Undefined THEN delay ELSE given
  IN IF d # 0 THEN d ELSE delay

\* sendMessageByPayload(payload, delay) -> sendMessage(createMessage(payload),
\* delay): send writes at once, and its then-callback starts the timer that
\* resolves the call. (given: the delay argument; wait: the time left on the
\* timer; authenticated: whether the call was made on an open socket after
\* an authenticate call had resolved; failed: whether it was made on a
\* closed socket, where the write fails.)
sendMessageByPayload(given) ==
  /\ ~crashed
  /\ CallsMade < MaxCalls
  /\ written' = send(written)
  /\ keyCalls' = Append(keyCalls, [promise |-> "pending", given |-> given,
                                   wait |-> Timeout(given),
                                   authenticated |-> Authenticated /\ socket = "open",
                                   failed |-> socket = "closed"])
  /\ UNCHANGED <<socket, attempts, connectCalls, connectListeners, errorListeners,
                 authCalls, dataListeners, crashed>>
  /\ UNCHANGED <<delay, ignored, codecVars>>

\* The timer of a key send has run out and fires: the call resolves.
TimerFires(i) ==
  /\ ~crashed
  /\ i \in 1..Len(keyCalls)
  /\ keyCalls[i].promise = "pending"
  /\ keyCalls[i].wait = 0
  /\ keyCalls' = [keyCalls EXCEPT ![i].promise = "resolved"]
  /\ UNCHANGED <<socket, attempts, connectCalls, connectListeners, errorListeners,
                 authCalls, dataListeners, written, crashed>>
  /\ UNCHANGED <<delay, ignored, codecVars>>

\* The key sends whose timer is running.
Waiting == {i \in 1..Len(keyCalls) : keyCalls[i].promise = "pending"}

\* The clock goes on by one tick: every running timer has one tick less to
\* wait. Timers that have run out fire first.
Tick ==
  /\ ~crashed
  /\ Waiting # {}
  /\ \A i \in Waiting : keyCalls[i].wait > 0
  /\ keyCalls' = [i \in 1..Len(keyCalls) |->
                    IF i \in Waiting THEN [keyCalls[i] EXCEPT !.wait = @ - 1]
                    ELSE keyCalls[i]]
  /\ UNCHANGED <<socket, attempts, connectCalls, connectListeners, errorListeners,
                 authCalls, dataListeners, written, crashed>>
  /\ UNCHANGED <<delay, ignored, codecVars>>

\* 'connect' is emitted: the connection is established. The one-shot
\* listeners socket.connect(..., resolve) added are called and removed.
Established ==
  /\ ~crashed
  /\ socket = "connecting"
  /\ socket' = "open"
  /\ connectCalls' =
       [i \in 1..Len(connectCalls) |->
          IF i \in connectListeners THEN Settle(connectCalls[i], "resolved")
          ELSE connectCalls[i]]
  /\ connectListeners' = {}
  /\ UNCHANGED <<attempts, errorListeners, authCalls, dataListeners, keyCalls,
                 written, crashed>>
  /\ UNCHANGED <<delay, ignored, codecVars>>

\* What the socket going down does to the authenticate calls: authenticate
\* adds no listener on 'error', 'end' or 'close'.
AuthOnClose(calls) == calls

\* 'error' is emitted (refused, unreachable, reset) and the socket is
\* destroyed: every reject that connect() added on 'error' is called.
SocketError ==
  /\ ~crashed
  /\ socket \in {"connecting", "open"}
  /\ socket' = "closed"
  /\ connectCalls' =
       [i \in 1..Len(connectCalls) |->
          IF i \in errorListeners THEN Settle(connectCalls[i], "error")
          ELSE connectCalls[i]]
  /\ authCalls' = AuthOnClose(authCalls)
  /\ UNCHANGED <<attempts, connectListeners, errorListeners, dataListeners,
                 keyCalls, written, crashed>>
  /\ UNCHANGED <<delay, ignored, codecVars>>

\* The television closes the connection: 'end' and 'close' are emitted, on
\* which the client has no listener.
SocketClose ==
  /\ ~crashed
  /\ socket = "open"
  /\ socket' = "closed"
  /\ authCalls' = AuthOnClose(authCalls)
  /\ UNCHANGED <<attempts, connectCalls, connectListeners, errorListeners,
                 dataListeners, keyCalls, written, crashed>>
  /\ UNCHANGED <<delay, ignored, codecVars>>

\* A listener that compares the first two bytes only: 64 00 is granted.
ClassifyByPrefix(payload) ==
  IF Len(payload) >= 2 /\ payload[1] = 100 /\ payload[2] = 0 THEN "Success"
  ELSE IF payload = accessResponse.timeout THEN "Timeout"
  ELSE "pending"

\* A listener with a last else-branch that rejects whatever is not granted,
\* denied or timeout.
ClassifyFailFast(payload) ==
  IF payload = accessResponse.granted THEN "Success"
  ELSE IF payload = accessResponse.denied THEN "Access denied"
  ELSE IF payload = accessResponse.timeout THEN "Timeout"
  ELSE "Unrecognized response"

\* A listener that lets await pass and rejects every other payload that is
\* none of the signatures.
ClassifyRejectUnknown(payload) ==
  IF payload = accessResponse.granted THEN "Success"
  ELSE IF payload = accessResponse.denied THEN "Access denied"
  ELSE IF payload = accessResponse.timeout THEN "Timeout"
  ELSE IF payload = accessResponse.await THEN "pending"
  ELSE "UnrecognizedResponse"

\* A listener that compares as many bytes as the signature has and ignores
\* what follows them.
ClassifyIgnoringTail(payload) ==
  LET starts(sig) == Len(payload) >= Len(sig) /\ SubSeq(payload, 1, Len(sig)) = sig
  IN IF starts(accessResponse.granted) THEN "Success"
     ELSE IF starts(accessResponse.denied) THEN "Access denied"
     ELSE IF starts(accessResponse.timeout) THEN "Timeout"
     ELSE "pending"

\* The branch the 'data' listener of authenticate takes on a parsed payload:
\* the outcome it settles its promise with, "pending" when it takes none.
Classify(payload) ==
  IF payload = accessResponse.granted THEN "Success"
  ELSE IF payload = accessResponse.denied THEN "Access denied"
  ELSE IF payload = accessResponse.timeout THEN "Timeout"
  ELSE "pending"

\* The payload is a strict prefix of a signature, or a signature followed by
\* more bytes.
NearSignature(payload) ==
  \E sig \in {accessResponse.granted, accessResponse.denied,
               accessResponse.await, accessResponse.timeout} :
    LET n == IF Len(sig) < Len(payload) THEN Len(sig) ELSE Len(payload)
    IN Len(sig) # Len(payload) /\ n > 0 /\ SubSeq(sig, 1, n) = SubSeq(payload, 1, n)

\* What is kept of a payload the listeners ran on: when some pending call
\* has a listener and the payload is none of the four signatures, whether it
\* is near one of them or not; "none" otherwise.
Ignored(payload) ==
  IF PendingAuth \cap Listening = {} THEN "none"
  ELSE IF Classify(payload) # "pending" \/ payload = accessResponse.await THEN "none"
  ELSE IF NearSignature(payload) THEN "near"
  ELSE "other"

\* One authenticate call after the 'data' listeners ran on a payload: its
\* own listener, if it has one, settles it when a branch is taken.
AfterData(i, payload) ==
  LET call == authCalls[i]
      outcome == Classify(payload)
  IN IF i \notin Listening THEN call
     ELSE IF outcome # "pending" THEN [call EXCEPT !.promise = Settle(@, outcome)]
     ELSE IF payload = accessResponse.await /\ call.promise = "pending"
       THEN [call EXCEPT !.awaits = @ + 1]
     ELSE call

\* The envelope layout as the television sends it.
Envelope(name, payload) ==
  <<0>> \o UInt16LE(Len(name)) \o name \o UInt16LE(Len(payload)) \o payload

\* Payloads of the inbound frames: the four signatures, a prefix of one, two
\* with bytes appended, and an unrelated one.
InboundPayloads ==
  {accessResponse.granted, accessResponse.denied, accessResponse.await,
   accessResponse.timeout, <<100, 0>>, <<101, 0, 0>>, <<100, 0, 1, 0, 0>>,
   <<0, 0, 0, 0>>}

\* One buffer holding two frames: await, and granted right after it.
Coalesced ==
  Envelope(<<>>, accessResponse.await) \o Envelope(<<>>, accessResponse.granted)

\* The buffers a 'data' event may carry: every payload enveloped under an
\* empty name, the signatures that settle a call also under the application
\* name, two frames in one buffer, and a buffer cut short.
Inbound ==
  {Envelope(<<>>, p) : p \in InboundPayloads}
    \cup {Envelope(AppName, p) :
            p \in {accessResponse.granted, accessResponse.denied, accessResponse.timeout}}
    \cup {Coalesced}
    \cup {<<0, 19>>}

\* 'data' is emitted with buffer data: every listener authenticate added
\* runs on it, in the order added. parseResponse throwing leaves the first
\* listener with an uncaught exception. (The count of await frames a call
\* has seen is kept up to MaxAwaits.)
Data(data) ==
  /\ ~crashed
  /\ socket = "open"
  /\ dataListeners # <<>>
  /\ LET r == parseResponse(data)
     IN IF r.thrown
          THEN crashed' = TRUE /\ UNCHANGED <<authCalls, ignored>>
          ELSE /\ r.payload = accessResponse.await =>
                    \A i \in PendingAuth : authCalls[i].awaits < MaxAwaits
               /\ authCalls' = [i \in 1..Len(authCalls) |-> AfterData(i, r.payload)]
               /\ ignored' = Ignored(r.payload)
               /\ UNCHANGED crashed
  /\ UNCHANGED <<socket, attempts, connectCalls, connectListeners, errorListeners,
                 dataListeners, keyCalls, written>>
  /\ UNCHANGED <<delay, codecVars>>

Init == ClientInit /\ CodecIdle

Next ==
  \/ \E validIP \in BOOLEAN : connect(validIP)
  \/ \E validIP \in BOOLEAN : authenticate(validIP)
  \/ sendMessageByPayload(Undefined)
  \/ \E i \in 1..Len(keyCalls) : TimerFires(i)
  \/ Established
  \/ SocketError
  \/ SocketClose
  \/ \E data \in Inbound : Data(data)

Spec == Init /\ [][Next]_vars

\* ------------------------------------------------------------ delay runs

\* The delays a key send is given: left out, or 0 to MaxDelay ticks.
Delays == {Undefined} \cup 0..MaxDelay

\* A client constructed with a default delay sends keys; time passes and
\* the timers fire.
DelayNext ==
  \/ \E given \in Delays : sendMessageByPayload(given)
  \/ \E i \in 1..Len(keyCalls) : TimerFires(i)
  \/ Tick

DelayStart == (\E d \in 0..MaxDelay : constructor(d)) /\ CodecIdle

DelaySpec == DelayStart /\ [][DelayNext]_vars

\* ------------------------------------------------------------- codec runs

\* The payloads createMessage is run on.
Payloads == SeqsUpTo(PayloadBytes, MaxPayloadLen)

\* The raw buffers parseResponse is run on.
Responses == SeqsUpTo(ResponseBytes, MaxResponseLen)

\* A codec run starts from a payload to wrap or from a raw buffer to parse.
CodecInit ==
  /\ codecOut = Thrown
  /\ \/ codecPc = "payload" /\ codecIn \in Payloads /\ codecMsg = <<>>
     \/ codecPc = "response" /\ codecIn = <<>> /\ codecMsg \in Responses

\* message = createMessage(payload)
CreateMessage ==
  /\ codecPc = "payload"
  /\ codecMsg' = createMessage(codecIn)
  /\ codecPc' = "message"
  /\ UNCHANGED <<codecIn, codecOut>>
  /\ UNCHANGED clientVars

\* payload = parseResponse(buffer), of a message createMessage built
\* ("roundtrip") or of a raw buffer ("parsed").
ParseResponse ==
  /\ codecPc \in {"message", "response"}
  /\ codecOut' = parseResponse(codecMsg)
  /\ codecPc' = IF codecPc = "message" THEN "roundtrip" ELSE "parsed"
  /\ UNCHANGED <<codecIn, codecMsg>>
  /\ UNCHANGED clientVars

CodecNext == CreateMessage \/ ParseResponse

CodecStart == ClientInit /\ CodecInit

CodecSpec == CodecStart /\ [][CodecNext]_vars

\* ----------------------------------------------------------- payload runs

\* Longest id and name given to createAuthPayload, longest key drawn from
\* KeyChars, and the length of the one long key.
MaxFieldLen == 2
MaxKeyLen == 3
LongKeyLen == 96

\* Characters of ids and names: 'A' and 'e' with an acute accent (two bytes
\* in UTF-8).
FieldChars == {65, 233}

\* Characters of the short keys: 'K' and '_'.
KeyChars == {75, 95}

\* The ip strings: '::1', '1.2.3.4', and two that are no IP literal
\* ('999.9' and the empty string).
IPStrings ==
  {<<58, 58, 49>>, <<49, 46, 50, 46, 51, 46, 52>>, <<57, 57, 57, 46, 57>>, <<>>}

\* 'KEY_VOLDOWN'
KeyVolDown == <<75, 69, 89, 95, 86, 79, 76, 68, 79, 87, 78>>

\* A key whose base64 form is 128 characters or more.
LongKey == [i \in 1..LongKeyLen |-> 65]

\* The keys createKeyPayload is run on.
Keys == SeqsUpTo(KeyChars, MaxKeyLen) \cup {KeyVolDown, LongKey}

\* A payload run starts from the arguments of createAuthPayload or from a
\* key.
PayloadInit ==
  /\ codecOut = Thrown
  /\ codecMsg = <<>>
  /\ \/ /\ codecPc = "authargs"
        /\ codecIn \in IPStrings \X SeqsUpTo(FieldChars, MaxFieldLen)
                      \X SeqsUpTo(FieldChars, MaxFieldLen)
     \/ codecPc = "key" /\ codecIn \in Keys

\* payload = createAuthPayload(ip, id, name): throws on an ip that is no IP
\* literal.
CreateAuthPayload ==
  /\ codecPc = "authargs"
  /\ IF isIP(codecIn[1]) = 0
       THEN codecPc' = "autherror" /\ UNCHANGED codecMsg
       ELSE /\ codecPc' = "authpayload"
            /\ codecMsg' = createAuthPayload(codecIn[1], codecIn[2], codecIn[3])
  /\ UNCHANGED <<codecIn, codecOut>>
  /\ UNCHANGED clientVars

\* payload = createKeyPayload(key)
CreateKeyPayload ==
  /\ codecPc = "key"
  /\ codecMsg' = createKeyPayload(codecIn)
  /\ codecPc' = "keypayload"
  /\ UNCHANGED <<codecIn, codecOut>>
  /\ UNCHANGED clientVars

\* message = createMessage(payload) of a key payload, as
\* sendMessageByPayload builds it.
CreateKeyMessage ==
  /\ codecPc = "keypayload"
  /\ codecMsg' = createMessage(codecMsg)
  /\ codecPc' = "keymessage"
  /\ UNCHANGED <<codecIn, codecOut>>
  /\ UNCHANGED clientVars

PayloadNext == CreateAuthPayload \/ CreateKeyPayload \/ CreateKeyMessage

PayloadStart == ClientInit /\ PayloadInit

PayloadSpec == PayloadStart /\ [][PayloadNext]_vars

\* ------------------------------------------------------------------ claims

\* The step is a call of sendMessageByPayload.
KeySendStep == Len(keyCalls') = Len(keyCalls) + 1

\* The step is a call of authenticate with a valid client IP.
AuthStep ==
  /\ Len(authCalls') = Len(authCalls) + 1
  /\ authCalls'[Len(authCalls')].promise # "Not a valid IP"

\* C1 as stated: a key send issued while no authenticate call has resolved
\* fails with InvalidState and writes nothing to the socket.
C1_KeySendRejectedBeforeAuth ==
  [][KeySendStep /\ ~Authenticated
       => keyCalls'[Len(keyCalls')].promise = "InvalidState" /\ written' = written]_vars

\* C1 amended: a key send issued while no authenticate call has resolved is
\* not rejected; its message is handed to socket.write (one write, of a key
\* message) and the call waits for its timer like any other key send.
C1_KeySendNotGuarded ==
  [][KeySendStep /\ ~Authenticated
       => /\ keyCalls'[Len(keyCalls')].promise = "pending"
          /\ written'.key = written.key + 1
          /\ written'.auth = written.auth]_vars

\* C1 witness: a key message was written and no authenticate call has
\* resolved (a resolved call stays resolved, so none had when it was sent).
C1_Witness == written.key > 0 /\ ~Authenticated /\ socket = "open"

\* C2 as stated: an authenticate call (here with a valid client IP) issued
\* while the socket is not open is rejected with InvalidState and writes no
\* auth message; an auth message is only ever written on an open socket.
C2_AuthRejectedBeforeConnect ==
  [][/\ AuthStep /\ socket # "open"
          => authCalls'[Len(authCalls')].promise = "InvalidState" /\ written' = written
     /\ written'.auth > written.auth => socket = "open"]_vars

\* C2 amended: an authenticate call with a valid client IP issued while the
\* socket is not open (never connected, connecting, or closed) is not
\* rejected; it hands its auth message to socket.write, adds its listener on
\* 'data' and stays pending.
C2_AuthNotGuarded ==
  [][AuthStep /\ socket # "open"
       => /\ authCalls'[Len(authCalls')].promise = "pending"
          /\ written'.auth = written.auth + 1
          /\ written'.key = written.key
          /\ dataListeners' = Append(dataListeners, Len(authCalls'))]_vars

\* C2 witness: an auth message was written on a socket that connect was
\* never called on.
C2_Witness == socket = "idle" /\ written.auth > 0 /\ PendingAuth # {}

\* The inbound buffers whose envelope carries exactly payload p.
FramesOf(p) ==
  {d \in Inbound : /\ Len(d) >= 5
                   /\ d[2] + 256 * d[3] + 5 + Len(p) = Len(d)
                   /\ d[Len(d) - Len(p) - 1] = Len(p) /\ d[Len(d) - Len(p)] = 0
                   /\ \A k \in 1..Len(p) : d[Len(d) - Len(p) + k] = p[k]}

GrantedFrames == FramesOf(<<100, 0, 1, 0>>)
DeniedFrames == FramesOf(<<100, 0, 0, 0>>)
TimeoutFrames == FramesOf(<<101, 0>>)
AwaitFrames == FramesOf(<<10, 0, 2, 0, 0, 0>>)

\* The step is a 'data' event carrying one of the given buffers.
DataStep(frames) == socket = "open" /\ \E d \in frames : Data(d)

\* C3: a frame with payload 64 00 01 00 resolves every pending authenticate
\* call; 64 00 00 00 rejects it with 'Access denied' and 65 00 with 'Timeout'.
C3_SignaturesSettle ==
  [][/\ DataStep(GrantedFrames) => \A i \in PendingAuth : authCalls'[i].promise = "Success"
     /\ DataStep(DeniedFrames) =>
          \A i \in PendingAuth : authCalls'[i].promise = "Access denied"
     /\ DataStep(TimeoutFrames) =>
          \A i \in PendingAuth : authCalls'[i].promise = "Timeout"]_vars

\* C3 witness: one call resolved by a granted frame, another rejected by a
\* denied or timeout frame.
C3_Witness ==
  \E i, j \in 1..Len(authCalls) :
    /\ authCalls[i].promise = "Success"
    /\ authCalls[j].promise \in {"Access denied", "Timeout"}

C7_SecondAuthRejected ==
  [][AuthStep /\ PendingAuth # {}
       => /\ authCalls'[Len(authCalls')].promise \notin {"pending", "Success"}
          /\ written' = written
          /\ dataListeners' = dataListeners]_vars

\* C7 amended: an authenticate call with a valid client IP made while
\* another is pending is not rejected; it writes a second auth message, adds
\* a second listener on 'data', and both calls are pending.
C7_SecondAuthAccepted ==
  [][AuthStep /\ PendingAuth # {}
       => /\ authCalls'[Len(authCalls')].promise = "pending"
          /\ written'.auth = written.auth + 1
          /\ Len(dataListeners') = Len(dataListeners) + 1
          /\ PendingAuth \subseteq {i \in 1..Len(authCalls') : authCalls'[i].promise = "pending"}]_vars

\* C7 witness: two authenticate calls pending at once, each with its
\* listener and its auth message written.
C7_Witness ==
  Cardinality(PendingAuth) >= 2 /\ written.auth >= 2 /\ Len(dataListeners) >= 2

\* The authenticate calls the step settles.
SettledByStep == {i \in PendingAuth : authCalls'[i].promise # "pending"}

\* A settled authenticate call keeps its outcome in the step.
OutcomesKept ==
  \A i \in 1..Len(authCalls) :
    authCalls[i].promise # "pending" => authCalls'[i].promise = authCalls[i].promise

\* C8 as stated: a settled call keeps its outcome, and one frame settles at
\* most one authenticate call.
C8_OneCallPerFrame == [][OutcomesKept /\ Cardinality(SettledByStep) <= 1]_vars

\* C8 amended: no authenticate call is settled twice: once resolved or
\* rejected, later, duplicate or out-of-order frames never change its
\* outcome; and a frame that settles a call settles every call pending when
\* it arrives, all with the same outcome.
C8_SettledOnce ==
  [][/\ OutcomesKept
     /\ SettledByStep # {} =>
          /\ SettledByStep = PendingAuth
          /\ \A i, j \in PendingAuth : authCalls'[i].promise = authCalls'[j].promise]_vars

\* C8 witness: the first call was resolved by a granted frame; the second,
\* made after that, was rejected by a denied frame that the first call's
\* listener saw too.
C8_Witness ==
  /\ Len(authCalls) >= 2
  /\ authCalls[1].promise = "Success"
  /\ authCalls[2].promise = "Access denied"
  /\ Listening = {1, 2}

\* C9 as stated: parseResponse(createMessage(P)) = P for every payload P.
C9_RoundTrip ==
  codecPc = "roundtrip" => ~codecOut.thrown /\ codecOut.payload = codecIn

\* The payload length a buffer declares, when its header can be read.
DeclaredPayloadSize(b) ==
  LET offset == 3 + b[2] + 256 * b[3]
  IN b[offset + 1] + 256 * b[offset + 2]

\* The header of the buffer (name length, name, payload length) is whole.
HeaderWhole(b) == Len(b) >= 3 /\ 3 + b[2] + 256 * b[3] + 2 <= Len(b)

\* C10 as stated: parseResponse fails on a buffer whose declared name length
\* or declared payload length exceeds the bytes that remain, and never
\* returns a payload shorter than the declared payload length.
C10_ShortBufferFails ==
  codecPc = "parsed" =>
    /\ ~HeaderWhole(codecMsg) => codecOut.thrown
    /\ HeaderWhole(codecMsg) =>
         \/ codecOut.thrown
         \/ Len(codecOut.payload) = DeclaredPayloadSize(codecMsg)

\* The value of a base64 character (0 for the padding).
Base64Value(c) ==
  IF c >= 65 /\ c <= 90 THEN c - 65
  ELSE IF c >= 97 /\ c <= 122 THEN c - 97 + 26
  ELSE IF c >= 48 /\ c <= 57 THEN c - 48 + 52
  ELSE IF c = 43 THEN 62
  ELSE IF c = 47 THEN 63
  ELSE 0

\* The bytes a base64 string stands for (its length a multiple of four).
RECURSIVE Base64Decode(_)
Base64Decode(c) ==
  IF Len(c) < 4 THEN <<>>
  ELSE IF Len(c) > 4 THEN
    LET h == 4 * ((Len(c) \div 4 + 1) \div 2)
    IN Base64Decode(SubSeq(c, 1, h)) \o Base64Decode(SubSeq(c, h + 1, Len(c)))
  ELSE
    LET v == [k \in 1..4 |-> Base64Value(c[k])]
        three == <<v[1] * 4 + v[2] \div 16, (v[2] % 16) * 16 + v[3] \div 4,
                   (v[3] % 4) * 64 + v[4]>>
        n == IF c[3] = 61 THEN 1 ELSE IF c[4] = 61 THEN 2 ELSE 3
    IN SubSeq(three, 1, n)

\* The u16 read low byte first at 0-based offset off of b.
ReadUInt16LE(b, off) == b[off + 1] + 256 * b[off + 2]

\* The length-prefixed field of b at 0-based offset off is the base64 form
\* of string: its u16 is the length of that form, its bytes are that form,
\* and they decode to the UTF-8 bytes of string.
FieldAt(b, off, string) ==
  LET size == ReadUInt16LE(b, off)
      bytes == SubSeq(b, off + 3, off + 2 + size)
  IN /\ off + 2 + size <= Len(b)
     /\ size = Len(Base64(StringBytes(string)))
     /\ size % 4 = 0
     /\ bytes = Base64(StringBytes(string))
     /\ Base64Decode(bytes) = StringBytes(string)

\* C11: for a valid ip, createAuthPayload(ip, id, name) is 64 00, then for
\* ip, id and name in that order a little-endian u16 equal to the length of
\* the base64 form followed by that form; its length is 8 plus the three
\* base64 lengths.
C11_AuthPayloadLayout ==
  codecPc = "authpayload" =>
    LET p == codecMsg
        s1 == ReadUInt16LE(p, 2)
        s2 == ReadUInt16LE(p, 4 + s1)
        s3 == ReadUInt16LE(p, 6 + s1 + s2)
    IN /\ Len(p) >= 8
       /\ p[1] = 100 /\ p[2] = 0
       /\ FieldAt(p, 2, codecIn[1])
       /\ FieldAt(p, 4 + s1, codecIn[2])
       /\ FieldAt(p, 6 + s1 + s2, codecIn[3])
       /\ Len(p) = 8 + s1 + s2 + s3

\* C11 witness: the payload of a valid ip, an id and a name with a character
\* of two UTF-8 bytes.
C11_Witness ==
  /\ codecPc = "authpayload"
  /\ codecIn[2] = <<65, 233>>
  /\ codecIn[3] = <<233>>
  /\ Len(codecMsg) = 8 + 4 + 4 + 4

\* C12 as stated: the inner payload of createMessage(createKeyPayload(k)) is
\* 00 00 00, the u16 length L of the base64 form of k, then L bytes that
\* decode to k, also when L >= 128.
C12_KeyFrameCarriesKey ==
  codecPc = "keymessage" =>
    LET inner == SubSeq(codecMsg, 5 + Len(AppName) + 1, Len(codecMsg))
    IN /\ Len(inner) >= 5
       /\ inner[1] = 0 /\ inner[2] = 0 /\ inner[3] = 0
       /\ FieldAt(inner, 3, codecIn)
       /\ Len(inner) = 5 + ReadUInt16LE(inner, 3)

\* The inbound buffers that parse to a payload that is none of the four
\* signatures.
UnrecognizedFrames ==
  {d \in Inbound : /\ ~parseResponse(d).thrown
                   /\ parseResponse(d).payload \notin
                        {accessResponse.granted, accessResponse.denied,
                         accessResponse.await, accessResponse.timeout}}

\* C13 as stated: a frame whose payload matches none of the four signatures
\* fails every pending authenticate call with UnrecognizedResponse.
C13_UnrecognizedFails ==
  [][DataStep(UnrecognizedFrames)
       => \A i \in PendingAuth : authCalls'[i].promise = "UnrecognizedResponse"]_vars

\* C13 amended: a frame whose payload matches none of the four signatures
\* is ignored: every pending authenticate call stays pending, no call
\* changes its outcome, and nothing is written.
C13_UnrecognizedIgnored ==
  [][DataStep(UnrecognizedFrames)
       => /\ \A i \in 1..Len(authCalls) : authCalls'[i].promise = authCalls[i].promise
          /\ written' = written
          /\ ~crashed']_vars

\* C13 witness: the listener of an authenticate call ran on a payload that
\* is unlike every signature, and the call is still pending.
C13_Witness ==
  ignored = "other" /\ PendingAuth \cap Listening # {}

\* C14 as stated: a key send hands its frame to the socket in the step of
\* the call, also while timers of other calls run; its timer is set to the
\* delay given with the call, an explicit 0 included, and to the default of
\* the constructor when none is given; the call resolves only once that time
\* has gone by.
C14_DelayHonoured ==
  [][/\ KeySendStep =>
          LET call == keyCalls'[Len(keyCalls')]
          IN /\ written'.key = written.key + 1
             /\ call.promise = "pending"
             /\ call.wait = IF call.given = Undefined THEN delay ELSE call.given
     /\ \A i \in 1..Len(keyCalls) :
          keyCalls[i].promise = "pending" /\ keyCalls'[i].promise = "resolved"
            => keyCalls[i].wait = 0]_vars

\* The inbound buffers that hold a whole frame.
WholeFrames == {d \in Inbound : ~parseResponse(d).thrown}

C16_OneAttemptPerConnect ==
  [][/\ (Len(connectCalls') = Len(connectCalls) + 1
           /\ connectCalls'[Len(connectCalls')] = "pending")
          => attempts' = Append(attempts, 55000)
     /\ attempts' # attempts => Len(connectCalls') = Len(connectCalls) + 1
     /\ \A i \in 1..Len(connectCalls) :
          /\ (connectCalls[i] = "pending" /\ connectCalls'[i] = "resolved")
               => (socket = "connecting" /\ socket' = "open")
          /\ (connectCalls[i] = "pending" /\ socket = "connecting" /\ socket' = "closed")
               => connectCalls'[i] = "error"]_vars

\* C16 witness: one connect call failed on a socket error, a later one
\* resolved, and each call made one attempt.
C16_Witness ==
  /\ \E i, j \in 1..Len(connectCalls) :
       i < j /\ connectCalls[i] = "error" /\ connectCalls[j] = "resolved"
  /\ Len(attempts) = Len(connectCalls)

\* C17 as stated: a key send whose write fails (it is made on a closed
\* socket) does not complete successfully.
C17_WriteFailureSurfaced ==
  \A i \in 1..Len(keyCalls) : keyCalls[i].failed => keyCalls[i].promise # "resolved"

\* C17 amended: a key send made on a closed socket is taken like any other:
\* the message is handed to socket.write, no call is rejected and the socket
\* stays as it is; the call is never rejected, and resolves when its timer
\* fires.
C17_WriteFailureSwallowed ==
  /\ [](\A i \in Waiting :
          (keyCalls[i].failed /\ keyCalls[i].wait = 0 /\ ~crashed) => ENABLED TimerFires(i))
  /\ [][(KeySendStep /\ socket = "closed") =>
           (/\ keyCalls'[Len(keyCalls')].promise = "pending"
            /\ written'.key = written.key + 1
            /\ connectCalls' = connectCalls
            /\ authCalls' = authCalls
            /\ socket' = socket)]_vars
  /\ [][\A i \in 1..Len(keyCalls) :
           keyCalls[i].failed => keyCalls'[i].promise \in {"pending", "resolved"}]_vars

\* C17 witness: two key sends made on a closed socket, the first of which
\* has resolved.
C17_Witness ==
  /\ Len(keyCalls) >= 2
  /\ keyCalls[1].failed /\ keyCalls[1].promise = "resolved"
  /\ keyCalls[2].failed

\* C18: an authenticate call with a clientIP that is no IP literal is
\* rejected with 'Not a valid IP'; it writes nothing, adds no listener on
\* 'data', and leaves the socket and every other call as they are.
C18_InvalidClientIPTouchesNothing ==
  [][(/\ Len(authCalls') = Len(authCalls) + 1
      /\ authCalls'[Len(authCalls')].promise = "Not a valid IP") =>
       (/\ written' = written
        /\ dataListeners' = dataListeners
        /\ socket' = socket
        /\ connectCalls' = connectCalls
        /\ keyCalls' = keyCalls
        /\ SubSeq(authCalls', 1, Len(authCalls)) = authCalls)]_vars

\* C18 witness: an authenticate call with an invalid clientIP was made on an
\* open socket and rejected; the socket is open, nothing was written and no
\* listener is on 'data'.
C18_Witness ==
  /\ socket = "open"
  /\ \E i \in 1..Len(authCalls) :
       authCalls[i].promise = "Not a valid IP" /\ authCalls[i].open
  /\ written.auth = 0
  /\ dataListeners = <<>>

\* C19 as stated: when one 'data' event carries an await frame and a
\* granted frame right after it, both are classified, so every pending
\* authenticate call with a listener resolves.
C19_EveryFrameClassified ==
  [][DataStep({Coalesced}) =>
       \A i \in PendingAuth \cap Listening : authCalls'[i].promise = "Success"]_vars

\* The inbound frames whose payload is a strict prefix of a signature or a
\* signature with bytes after it: 64 00, 65 00 00 and 64 00 01 00 00.
NearFrames ==
  FramesOf(<<100, 0>>) \cup FramesOf(<<101, 0, 0>>) \cup FramesOf(<<100, 0, 1, 0, 0>>)

\* C20: the four signatures differ from each other, and a frame whose
\* payload is a strict prefix of a signature or a signature followed by more
\* bytes settles no authenticate call and is not counted as an await frame.
C20_WholePayloadEquality ==
  /\ Cardinality({accessResponse.granted, accessResponse.denied,
                  accessResponse.await, accessResponse.timeout}) = 4
  /\ [][DataStep(NearFrames) =>
           \A i \in 1..Len(authCalls) :
             /\ authCalls'[i].promise = authCalls[i].promise
             /\ authCalls'[i].awaits = authCalls[i].awaits]_vars

\* C20 witness: the last payload the listener of a pending authenticate call
\* ran on was near a signature, and the call has counted no await frame.
C20_Witness ==
  /\ ignored = "near"
  /\ \E i \in PendingAuth \cap Listening : authCalls[i].awaits = 0

====
